---- MODULE Spec2Model ----
(***************************************************************************)
(* AddTypeMutator of wasm-mutate (crates/wasm-mutate/src/mutators/         *)
(* add_type.rs): a mutator that appends one randomly generated function    *)
(* type to the type section of a Wasm module, creating the section when    *)
(* the module has none.                                                    *)
(*                                                                         *)
(* The mutator itself is modelled from add_type.rs.  Its collaborators     *)
(* (wasmparser's TypeSectionReader, wasm_encoder's TypeSection, the        *)
(* ModuleInfo section store and the random source) live outside that file  *)
(* and are modelled from the specification's description of the wire       *)
(* format and of the section-store interface.                              *)
(***************************************************************************)
EXTENDS Integers, Sequences, FiniteSets, TLC

\* Largest value of the mutator's max_params / max_results fields explored.
MaxBound == 1
\* Largest number of entries of an input module's type section.
MaxTypes == 2
\* Largest number of custom sections leading an input module.
MaxCustom == 1

VARIABLES
    self,    \* the AddTypeMutator: [max_params, max_results]
    info,    \* config.info(): the input module, a sequence of raw sections
    rng,     \* config.rng(): [stream, cursor]
    out,     \* what the last call of mutate produced
    first,   \* what the first run produced, kept to compare a replay against
    input    \* how the input module was built (never read by the mutator)

vars == <<self, info, rng, out, first, input>>

(***************************************************************************)
(* Value types.  wasm_encoder::ValType is modelled by a string, and        *)
(* wasmparser::ValType by a record, so translate_type is a real conversion.*)
(***************************************************************************)
EncValTypes == {"I32", "I64", "F32", "F64", "V128", "ExternRef", "FuncRef"}

\* wasmparser::FUNC_REF and wasmparser::EXTERN_REF
FUNC_REF == [nullable |-> TRUE, heap_type |-> "Func"]
EXTERN_REF == [nullable |-> TRUE, heap_type |-> "Extern"]

PNum(k) == [kind |-> k]
PRef(rt) == [kind |-> "Ref", rt |-> rt]

\* The single-byte tag of each encoder value type on the wire.
ValTypeTag(t) ==
    CASE t = "I32" -> 127
      [] t = "I64" -> 126
      [] t = "F32" -> 125
      [] t = "F64" -> 124
      [] t = "V128" -> 123
      [] t = "FuncRef" -> 112
      [] t = "ExternRef" -> 111

\* Leading bytes of a type-section entry, of a non-shorthand reference type.
WireTag == [Func |-> 96, Cont |-> 93, RefNull |-> 108, Ref |-> 107]

SectionId == [Custom |-> 0, Type |-> 1, Function |-> 3]

(***************************************************************************)
(* wasm_encoder: LEB128 counts and the TypeSection builder.                *)
(***************************************************************************)
RECURSIVE EncodeU32(_)
EncodeU32(n) ==
    IF n < 128 THEN <<n>>
    ELSE <<(n % 128) + 128>> \o EncodeU32(n \div 128)

RECURSIVE EncodeValTypes(_)
EncodeValTypes(ts) ==
    IF ts = <<>> THEN <<>>
    ELSE <<ValTypeTag(Head(ts))>> \o EncodeValTypes(Tail(ts))

\* TypeSection::new()
TypeSection_new == [num_added |-> 0, bytes |-> <<>>]

\* TypeSection::function(params, results)
TypeSection_function(types, params, results) ==
    [num_added |-> types.num_added + 1,
     bytes |-> types.bytes
               \o <<WireTag.Func>>
               \o EncodeU32(Len(params)) \o EncodeValTypes(params)
               \o EncodeU32(Len(results)) \o EncodeValTypes(results)]

\* The section the builder encodes to: a count, then the entries.
TypeSection_section(types) ==
    [id |-> SectionId.Type, data |-> EncodeU32(types.num_added) \o types.bytes]

(***************************************************************************)
(* wasmparser: BinaryReader and TypeSectionReader.  pos counts the bytes   *)
(* consumed so far; every read fails at the end of the data.               *)
(***************************************************************************)
ReadErr == [ok |-> FALSE]
ReadOk(v, p) == [ok |-> TRUE, val |-> v, pos |-> p]

RECURSIVE ReadVarU32At(_, _, _)
ReadVarU32At(data, pos, shift) ==
    IF pos >= Len(data) THEN ReadErr
    ELSE LET b == data[pos + 1] IN
         IF b < 128
         THEN IF shift = 28 /\ b >= 16 THEN ReadErr
              ELSE ReadOk(b * (2 ^ shift), pos + 1)
         ELSE IF shift = 28 THEN ReadErr
              ELSE LET r == ReadVarU32At(data, pos + 1, shift + 7) IN
                   IF r.ok THEN ReadOk((b - 128) * (2 ^ shift) + r.val, r.pos)
                   ELSE ReadErr

read_var_u32(data, pos) == ReadVarU32At(data, pos, 0)

\* A heap type: func, extern, or a type index.
HeapIndex(r) == IF r.ok THEN ReadOk("TypedFunc", r.pos) ELSE ReadErr

read_heap_type(data, pos) ==
    IF pos >= Len(data) THEN ReadErr
    ELSE IF data[pos + 1] = ValTypeTag("FuncRef") THEN ReadOk("Func", pos + 1)
    ELSE IF data[pos + 1] = ValTypeTag("ExternRef") THEN ReadOk("Extern", pos + 1)
    ELSE HeapIndex(read_var_u32(data, pos))

\* A reference type written as a prefix byte b and a heap type h.
RefTypeOf(b, h) ==
    IF h.ok
    THEN ReadOk(PRef([nullable |-> (b = WireTag.RefNull), heap_type |-> h.val]),
                h.pos)
    ELSE ReadErr

read_val_type(data, pos) ==
    IF pos >= Len(data) THEN ReadErr
    ELSE LET b == data[pos + 1] IN
         CASE b = ValTypeTag("I32") -> ReadOk(PNum("I32"), pos + 1)
           [] b = ValTypeTag("I64") -> ReadOk(PNum("I64"), pos + 1)
           [] b = ValTypeTag("F32") -> ReadOk(PNum("F32"), pos + 1)
           [] b = ValTypeTag("F64") -> ReadOk(PNum("F64"), pos + 1)
           [] b = ValTypeTag("V128") -> ReadOk(PNum("V128"), pos + 1)
           [] b = ValTypeTag("FuncRef") -> ReadOk(PRef(FUNC_REF), pos + 1)
           [] b = ValTypeTag("ExternRef") -> ReadOk(PRef(EXTERN_REF), pos + 1)
           [] b \in {WireTag.RefNull, WireTag.Ref} ->
                RefTypeOf(b, read_heap_type(data, pos + 1))
           [] OTHER -> ReadErr

\* The value t read, put before the values rest read after it.
ReadCons(t, rest) ==
    IF rest.ok THEN ReadOk(<<t.val>> \o rest.val, rest.pos) ELSE ReadErr

\* n value types: the first, t, has been read.
RECURSIVE read_val_types(_, _, _)
ReadValTypesAfter(data, t, n) ==
    IF ~t.ok THEN ReadErr
    ELSE ReadCons(t, read_val_types(data, t.pos, n - 1))

read_val_types(data, pos, n) ==
    IF n = 0 THEN ReadOk(<<>>, pos)
    ELSE ReadValTypesAfter(data, read_val_type(data, pos), n)

\* A function type, read in four steps: the param count np, the params ps,
\* the result count nr, the results rs.
FuncTypeOf(ps, rs) ==
    IF ~rs.ok THEN ReadErr
    ELSE ReadOk([kind |-> "Func", params |-> ps.val, returns |-> rs.val], rs.pos)

ReadFuncResults(data, ps, nr) ==
    IF ~nr.ok THEN ReadErr
    ELSE FuncTypeOf(ps, read_val_types(data, nr.pos, nr.val))

ReadFuncResultCount(data, ps) ==
    IF ~ps.ok THEN ReadErr
    ELSE ReadFuncResults(data, ps, read_var_u32(data, ps.pos))

ReadFuncParams(data, np) ==
    IF ~np.ok THEN ReadErr
    ELSE ReadFuncResultCount(data, read_val_types(data, np.pos, np.val))

read_func_type(data, pos) == ReadFuncParams(data, read_var_u32(data, pos))

\* TypeSectionReader::new(data, 0): reads the count.
TypeSectionReader_new(data) ==
    LET c == read_var_u32(data, 0) IN
    IF c.ok THEN [ok |-> TRUE, count |-> c.val, pos |-> c.pos] ELSE ReadErr

\* TypeSectionReader::read(): one wasmparser::Type, Func or Cont.
TypeSectionReader_read(data, pos) ==
    IF pos >= Len(data) THEN ReadErr
    ELSE LET b == data[pos + 1] IN
         IF b = WireTag.Func THEN read_func_type(data, pos + 1)
         ELSE IF b = WireTag.Cont
         THEN LET i == read_var_u32(data, pos + 1) IN
              IF i.ok THEN ReadOk([kind |-> "Cont", index |-> i.val], i.pos)
              ELSE ReadErr
         ELSE ReadErr

(***************************************************************************)
(* The random source.  A seeded generator is a fixed stream of raw draws   *)
(* and a cursor into it; gen_range(0..=hi) consumes one raw draw and       *)
(* reduces it to the range.  Past its recorded end the stream yields 0.    *)
(***************************************************************************)
gen_range(r, hi) ==
    LET raw == IF r.cursor < Len(r.stream) THEN r.stream[r.cursor + 1] ELSE 0 IN
    [val |-> raw % (hi + 1), rng |-> [r EXCEPT !.cursor = r.cursor + 1]]

\* Creating the generator again from the same seed.
seed_from(r) == [r EXCEPT !.cursor = 0]

(***************************************************************************)
(* ModuleInfo, the section store: raw_sections and the index of the type   *)
(* section among them.  Both writes build the candidate module and leave   *)
(* the store's own sections alone.                                         *)
(***************************************************************************)
None == [some |-> FALSE]
Some(v) == [some |-> TRUE, val |-> v]

get_type_section(i) ==
    IF i.types.some THEN Some(i.raw_sections[i.types.val + 1]) ELSE None

replace_section(i, index, types) ==
    [i.raw_sections EXCEPT ![index + 1] = TypeSection_section(types)]

insert_section(i, index, types) ==
    SubSeq(i.raw_sections, 1, index)
        \o <<TypeSection_section(types)>>
        \o SubSeq(i.raw_sections, index + 1, Len(i.raw_sections))

NoModule == <<>>
Failed(res) == [res |-> res, module |-> NoModule, store |-> <<>>]

(***************************************************************************)
(* add_type.rs                                                             *)
(***************************************************************************)
Ok(v) == [res |-> "Ok", val |-> v]
Err == [res |-> "Err"]
Panic == [res |-> "Panic"]

\* The match of random_valtype on the number drawn.
match_valtype(d) ==
    [val |-> CASE d.val = 0 -> "I32"
               [] d.val = 1 -> "I64"
               [] d.val = 2 -> "F32"
               [] d.val = 3 -> "F64"
               [] d.val = 4 -> "V128"
               [] d.val = 5 -> "ExternRef"
               [] d.val = 6 -> "FuncRef",
     rng |-> d.rng]

\* AddTypeMutator::random_valtype
random_valtype(r) == match_valtype(gen_range(r, 6))

\* v.push(t): the value type t drawn, before the ones drawn after it.
push(t, rest) == [val |-> <<t.val>> \o rest.val, rng |-> rest.rng]

\* push_valtypes with the loop bound off by one: 0..=count.
RECURSIVE push_valtypes_Inclusive(_, _)
push_valtypes_Inclusive(r, count) ==
    IF count < 0 THEN [val |-> <<>>, rng |-> r]
    ELSE LET t == random_valtype(r)
             rest == push_valtypes_Inclusive(t.rng, count - 1)
         IN [val |-> <<t.val>> \o rest.val, rng |-> rest.rng]

\* for _ in 0..count { v.push(self.random_valtype(config.rng())) }
RECURSIVE push_valtypes(_, _)
push_next(t, count) == push(t, push_valtypes(t.rng, count - 1))

push_valtypes(r, count) ==
    IF count = 0 THEN [val |-> <<>>, rng |-> r]
    ELSE push_next(random_valtype(r), count)

\* new_signature drawing both counts before any value type.
new_signature_CountsFirst(m, r) ==
    LET pc == gen_range(r, m.max_params)
        rc == gen_range(pc.rng, m.max_results)
        ps == push_valtypes(rc.rng, pc.val)
        rs == push_valtypes(ps.rng, rc.val)
    IN [params |-> ps.val, results |-> rs.val, rng |-> rs.rng]

\* Lines 41-51 of mutate, the new signature, in four steps: the param count
\* pc, the params ps, the result count rc, the results rs.
signature_of(ps, rs) == [params |-> ps.val, results |-> rs.val, rng |-> rs.rng]

draw_results(ps, rc) == signature_of(ps, push_valtypes(rc.rng, rc.val))

draw_result_count(m, ps) == draw_results(ps, gen_range(ps.rng, m.max_results))

draw_params(m, pc) == draw_result_count(m, push_valtypes(pc.rng, pc.val))

new_signature(m, r) == draw_params(m, gen_range(r, m.max_params))

\* translate_ref_type with the two arms exchanged.
translate_ref_type_Swapped(rt) ==
    IF rt = FUNC_REF THEN Ok("ExternRef")
    ELSE IF rt = EXTERN_REF THEN Ok("FuncRef")
    ELSE Panic

translate_ref_type(rt) ==
    IF rt = FUNC_REF THEN Ok("FuncRef")
    ELSE IF rt = EXTERN_REF THEN Ok("ExternRef")
    ELSE Panic    \* unimplemented!()

translate_type(ty) ==
    CASE ty.kind = "I32" -> Ok("I32")
      [] ty.kind = "I64" -> Ok("I64")
      [] ty.kind = "F32" -> Ok("F32")
      [] ty.kind = "F64" -> Ok("F64")
      [] ty.kind = "V128" -> Ok("V128")
      [] ty.kind = "Ref" -> translate_ref_type(ty.rt)
      [] ty.kind = "Bot" -> Panic    \* unreachable!()

\* .iter().map(translate_type).collect::<Result<Vec<_>, _>>()?
RECURSIVE translate_types(_)
translate_types(tys) ==
    IF tys = <<>> THEN Ok(<<>>)
    ELSE LET t == translate_type(Head(tys)) IN
         IF t.res # "Ok" THEN t
         ELSE LET rest == translate_types(Tail(tys)) IN
              IF rest.res # "Ok" THEN rest
              ELSE Ok(<<t.val>> \o rest.val)

\* copy_type passing the results where the params belong: function(results, params).
copy_type_Swapped(types, ty) ==
    IF ty.kind = "Func"
    THEN LET params == translate_types(ty.params) IN
         IF params.res # "Ok" THEN params
         ELSE LET results == translate_types(ty.returns) IN
              IF results.res # "Ok" THEN results
              ELSE Ok(TypeSection_function(types, results.val, params.val))
    ELSE Panic

\* One match on a type the reader returned (lines 59-74).
copy_type(types, ty) ==
    IF ty.kind = "Func"
    THEN LET params == translate_types(ty.params) IN
         IF params.res # "Ok" THEN params
         ELSE LET results == translate_types(ty.returns) IN
              IF results.res # "Ok" THEN results
              ELSE Ok(TypeSection_function(types, params.val, results.val))
    ELSE Panic    \* wasmparser::Type::Cont(_) => unimplemented!()

\* for _ in 0..reader.get_count() { let ty = reader.read()?; ... }
RECURSIVE copy_loop(_, _, _, _)
copy_rest(data, pos, count, copied) ==
    IF copied.res # "Ok" THEN copied
    ELSE copy_loop(data, pos, count - 1, copied.val)

copy_read(data, count, types, ty) ==
    IF ~ty.ok THEN Err
    ELSE copy_rest(data, ty.pos, count, copy_type(types, ty.val))

copy_loop(data, pos, count, types) ==
    IF count = 0 THEN Ok(types)
    ELSE copy_read(data, count, types, TypeSectionReader_read(data, pos))

\* copy_types that takes an unreadable section for an empty one.
copy_types_Lenient(data) ==
    LET reader == TypeSectionReader_new(data) IN
    IF ~reader.ok THEN Ok(TypeSection_new)
    ELSE LET c == copy_loop(data, reader.pos, reader.count, TypeSection_new) IN
         IF c.res = "Err" THEN Ok(TypeSection_new) ELSE c

\* Lines 56-75: the existing type section copied into the encoder.
copy_types(data) ==
    LET reader == TypeSectionReader_new(data) IN
    IF ~reader.ok THEN Err
    ELSE copy_loop(data, reader.pos, reader.count, TypeSection_new)


\* mutate_present replacing the section at index 0.
mutate_present_IndexZero(i, old_types, sig) ==
    LET types == copy_types(old_types.data) IN
    IF types.res # "Ok" THEN Failed(types.res)
    ELSE LET all == TypeSection_function(types.val, sig.params, sig.results)
         IN [res |-> "Ok",
             module |-> replace_section(i, 0, all),
             store |-> <<[op |-> "replace_section", index |-> 0]>>]

\* Lines 76-81: the new type added to the copied ones, the section replaced.
replace_types(i, types, sig) ==
    IF types.res # "Ok" THEN Failed(types.res)
    ELSE [res |-> "Ok",
          module |-> replace_section(i, i.types.val,
                        TypeSection_function(types.val, sig.params, sig.results)),
          store |-> <<[op |-> "replace_section", index |-> i.types.val]>>]

\* The Some(old_types) arm of mutate (lines 54-81).
mutate_present(i, old_types, sig) ==
    replace_types(i, copy_types(old_types.data), sig)

\* mutate_absent inserting the new section after the last one.
mutate_absent_AtEnd(i, sig) ==
    LET types == TypeSection_function(TypeSection_new, sig.params, sig.results)
        last == Len(i.raw_sections)
    IN [res |-> "Ok",
        module |-> insert_section(i, last, types),
        store |-> <<[op |-> "insert_section", index |-> last]>>]

\* The else arm of mutate (lines 82-87).
mutate_absent(i, sig) ==
    [res |-> "Ok",
     module |-> insert_section(i, 0,
                   TypeSection_function(TypeSection_new, sig.params, sig.results)),
     store |-> <<[op |-> "insert_section", index |-> 0]>>]

\* Lines 53-87 of mutate: the new signature put into the module.
add_signature(i, sig) ==
    IF get_type_section(i).some
    THEN mutate_present(i, get_type_section(i).val, sig)
    ELSE mutate_absent(i, sig)

\* What a call leaves: the outcome r of add_signature, the signature drawn and
\* the random source after the draws.
returned(sig, r) ==
    [res |-> r.res, module |-> r.module, store |-> r.store,
     sig |-> [params |-> sig.params, results |-> sig.results],
     rng |-> sig.rng]

with_signature(config, sig) == returned(sig, add_signature(config.info, sig))

\* mutate with a params buffer that outlives the call and is never cleared.
mutate_KeptParams(m, config) ==
    LET fresh == new_signature(m, config.rng)
        sig == [fresh EXCEPT !.params = first.sig.params \o fresh.params]
        r == add_signature(config.info, sig)
    IN [res |-> r.res, module |-> r.module, store |-> r.store,
        sig |-> [params |-> sig.params, results |-> sig.results],
        rng |-> sig.rng]

\* mutate that looks the type section up first and draws only once it decoded.
mutate_LookupFirst(m, config) ==
    LET old_types == get_type_section(config.info)
        decoded == IF old_types.some THEN copy_types(old_types.val.data).res
                   ELSE "Ok"
    IN IF decoded # "Ok"
       THEN [res |-> decoded, module |-> NoModule, store |-> <<>>,
             sig |-> [params |-> <<>>, results |-> <<>>], rng |-> config.rng]
       ELSE LET sig == new_signature(m, config.rng)
                r == add_signature(config.info, sig)
            IN [res |-> r.res, module |-> r.module, store |-> r.store,
                sig |-> [params |-> sig.params, results |-> sig.results],
                rng |-> sig.rng]

\* AddTypeMutator::mutate
mutate(m, config) == with_signature(config, new_signature(m, config.rng))

(***************************************************************************)
(* Input modules.                                                          *)
(***************************************************************************)
Sig(ps, rs) == [params |-> ps, results |-> rs]

\* Signatures of existing entries; together they use all seven value types.
SampleSigs ==
    << Sig(<<"I32">>, <<"I64">>),
       Sig(<<"FuncRef", "F32">>, <<>>),
       Sig(<<"V128">>, <<"ExternRef", "F64">>) >>

\* A type table of n entries.
SampleTable(n) == [i \in 1..n |-> SampleSigs[((i - 1) % Len(SampleSigs)) + 1]]

RECURSIVE AddAll(_, _)
AddAll(types, sigs) ==
    IF sigs = <<>> THEN types
    ELSE AddAll(TypeSection_function(types, Head(sigs).params, Head(sigs).results),
                Tail(sigs))

\* The bytes of a well-formed type section holding the signatures sigs.
WellFormed(sigs) == TypeSection_section(AddAll(TypeSection_new, sigs)).data

\* The same entries followed by the bytes of one more entry.
WithEntry(sigs, entry) ==
    EncodeU32(Len(sigs) + 1) \o AddAll(TypeSection_new, sigs).bytes \o entry

\* Type-section bytes of each shape, after n well-formed entries.
TypeData(shape, n) ==
    CASE shape = "good" -> WellFormed(SampleTable(n))
      \* the last entry cut short
      [] shape = "truncated" ->
            LET b == WellFormed(SampleTable(n + 1)) IN SubSeq(b, 1, Len(b) - 1)
      \* a count prefix larger than the entries that follow
      [] shape = "overcount" ->
            EncodeU32(n + 1) \o AddAll(TypeSection_new, SampleTable(n)).bytes
      \* a function type whose param is no value type
      [] shape = "badtag" ->
            WithEntry(SampleTable(n), <<WireTag.Func, 1, 64, 0>>)
      \* a continuation type
      [] shape = "cont" ->
            WithEntry(SampleTable(n), <<WireTag.Cont, 0>>)
      \* a function type with a param (ref func), not funcref or externref
      [] shape = "badref" ->
            WithEntry(SampleTable(n),
                      <<WireTag.Func, 1, WireTag.Ref, ValTypeTag("FuncRef"), 0>>)
      \* a continuation type, then a missing entry
      [] shape = "cont_truncated" ->
            EncodeU32(n + 2) \o AddAll(TypeSection_new, SampleTable(n)).bytes
                \o <<WireTag.Cont, 0>>

DecodeErrorShapes == {"truncated", "overcount", "badtag"}
UnsupportedShapes == {"cont", "badref", "cont_truncated"}

CustomSection(i) == [id |-> SectionId.Custom, data |-> <<2, 72, 73, 120, 120, 120 + i>>]
FunctionSection == [id |-> SectionId.Function, data |-> <<0>>]

Customs(c) == [i \in 1..c |-> CustomSection(i)]
Trailing == <<FunctionSection, CustomSection(0)>>

\* A module with c leading custom sections and a type section of this shape.
WithTypes(c, shape, n) ==
    [info |-> [types |-> Some(c),
               raw_sections |-> Customs(c)
                   \o <<[id |-> SectionId.Type, data |-> TypeData(shape, n)]>>
                   \o Trailing],
     shape |-> shape, custom |-> c, n |-> n, rest |-> Trailing]

\* A module with c leading custom sections and no type section.
WithoutTypes(c, rest) ==
    [info |-> [types |-> None, raw_sections |-> Customs(c) \o rest],
     shape |-> "absent", custom |-> c, n |-> 0, rest |-> rest]

Inputs ==
    {WithoutTypes(c, rest) : c \in 0..MaxCustom, rest \in {<<>>, Trailing}}
    \cup {WithTypes(c, "good", n) : c \in 0..MaxCustom, n \in 0..MaxTypes}
    \cup {WithTypes(MaxCustom, shape, n) :
             shape \in DecodeErrorShapes \cup UnsupportedShapes,
             n \in {0, MaxTypes - 1}}

Mutators == [max_params : 0..MaxBound, max_results : 0..MaxBound]

\* Seeds: one stream for every way the draws of a call can come out.
Seeds(m) ==
    UNION { UNION { { <<pc>> \o ps \o <<rc>> \o rs :
                        ps \in [1..pc -> 0..6], rs \in [1..rc -> 0..6] } :
                    rc \in 0..m.max_results } :
            pc \in 0..m.max_params }

(***************************************************************************)
(* The state machine.                                                      *)
(***************************************************************************)
NoOut == [status |-> "none", module |-> NoModule, store |-> <<>>,
          sig |-> Sig(<<>>, <<>>), cursor |-> 0]

Init ==
    /\ self \in Mutators
    /\ \E i \in Inputs :
          /\ info = i.info
          /\ input = [shape |-> i.shape, custom |-> i.custom, n |-> i.n,
                       rest |-> i.rest]
    /\ \E s \in Seeds(self) : rng = [stream |-> s, cursor |-> 0]
    /\ out = NoOut
    /\ first = NoOut

\* The state a call leaves.
Returned(r) ==
    /\ rng' = r.rng
    /\ out' = [status |-> r.res, module |-> r.module, store |-> r.store,
               sig |-> r.sig, cursor |-> r.rng.cursor]

\* One call of mutate on a freshly set up configuration.
Mutate ==
    /\ out.status = "none"
    /\ Returned(mutate(self, [info |-> info, rng |-> rng]))
    /\ UNCHANGED <<self, info, first, input>>

\* The engine sets up a second run: same seed, same input, same mutator.
Rerun ==
    /\ out.status # "none"
    /\ first.status = "none"
    /\ first' = out
    /\ out' = NoOut
    /\ rng' = seed_from(rng)
    /\ UNCHANGED <<self, info, input>>

Next == Mutate \/ Rerun

Spec == Init /\ [][Next]_vars

(***************************************************************************)
(* The decoder on its own: the existing section read and translated into   *)
(* the lists handed to the encoder (lines 56-72), applied to the encoding  *)
(* of a list of signatures.                                                *)
(***************************************************************************)
RECURSIVE decode_loop(_, _, _)
decode_cons(params, results, rest) ==
    IF rest.res # "Ok" THEN rest
    ELSE Ok(<<Sig(params.val, results.val)>> \o rest.val)

decode_results(data, pos, count, params, results) ==
    IF results.res # "Ok" THEN results
    ELSE decode_cons(params, results, decode_loop(data, pos, count - 1))

decode_params(data, count, ty, params) ==
    IF params.res # "Ok" THEN params
    ELSE decode_results(data, ty.pos, count, params,
                        translate_types(ty.val.returns))

decode_read(data, count, ty) ==
    IF ~ty.ok THEN Err
    ELSE IF ty.val.kind # "Func" THEN Panic
    ELSE decode_params(data, count, ty, translate_types(ty.val.params))

decode_loop(data, pos, count) ==
    IF count = 0 THEN Ok(<<>>)
    ELSE decode_read(data, count, TypeSectionReader_read(data, pos))

decode_types(data) ==
    LET reader == TypeSectionReader_new(data) IN
    IF ~reader.ok THEN Err
    ELSE decode_loop(data, reader.pos, reader.count)

\* Every signature with at most MaxBound params and MaxBound results.
Signatures ==
    UNION { { Sig(ps, rs) : ps \in [1..p -> EncValTypes], rs \in [1..r -> EncValTypes] } :
            p \in 0..MaxBound, r \in 0..MaxBound }

InitCodec ==
    /\ \E n \in 0..MaxTypes, g \in Signatures :
          LET L == SampleTable(n) \o <<g>> IN
          /\ info = [types |-> Some(0),
                     raw_sections |-> <<[id |-> SectionId.Type,
                                         data |-> WellFormed(L)]>>]
          /\ input = [shape |-> "good", custom |-> 0, n |-> n + 1, rest |-> <<>>,
                      types |-> L]
    /\ self = [max_params |-> 0, max_results |-> 0]
    /\ rng = [stream |-> <<>>, cursor |-> 0]
    /\ out = NoOut
    /\ first = NoOut

Decoded(d) ==
    out' = [status |-> d.res, types |-> IF d.res = "Ok" THEN d.val ELSE <<>>]

Decode ==
    /\ out.status = "none"
    /\ Decoded(decode_types(get_type_section(info).val.data))
    /\ UNCHANGED <<self, info, rng, first, input>>

NextCodec == Decode

SpecCodec == InitCodec /\ [][NextCodec]_vars

(***************************************************************************)
(* What the properties observe.                                            *)
(***************************************************************************)
Called == out.status # "none"

\* The module an input record describes.
InputModule(inp) ==
    IF inp.shape = "absent" THEN WithoutTypes(inp.custom, inp.rest).info
    ELSE WithTypes(inp.custom, inp.shape, inp.n).info

\* The entries of a type section as the reader returns them, all bytes read.
RECURSIVE ReadEntries(_, _, _)
ReadEntries(data, pos, count) ==
    IF count = 0 THEN [ok |-> pos = Len(data), val |-> <<>>]
    ELSE LET ty == TypeSectionReader_read(data, pos) IN
         IF ~ty.ok THEN [ok |-> FALSE, val |-> <<>>]
         ELSE LET rest == ReadEntries(data, ty.pos, count - 1) IN
              [ok |-> rest.ok, val |-> <<ty.val>> \o rest.val]

ReadTypes(data) ==
    LET reader == TypeSectionReader_new(data) IN
    IF ~reader.ok THEN [ok |-> FALSE, val |-> <<>>]
    ELSE ReadEntries(data, reader.pos, reader.count)

\* An encoder value type, and a signature, as the reader returns them.
AsParsed(t) ==
    IF t = "FuncRef" THEN PRef(FUNC_REF)
    ELSE IF t = "ExternRef" THEN PRef(EXTERN_REF)
    ELSE PNum(t)

ParsedSig(sig) ==
    [kind |-> "Func",
     params |-> [i \in 1..Len(sig.params) |-> AsParsed(sig.params[i])],
     returns |-> [i \in 1..Len(sig.results) |-> AsParsed(sig.results[i])]]

TypeSectionsOf(module) ==
    {i \in 1..Len(module) : module[i].id = SectionId.Type}

\* The number of structural (non-custom) sections before position i.
StructuralIndex(module, i) ==
    Cardinality({j \in 1..(i - 1) : module[j].id # SectionId.Custom})

\* The raw draw at position i of the stream, and the value type a draw selects.
RawAt(i) == IF i <= Len(rng.stream) THEN rng.stream[i] ELSE 0
DrawnValType(d) ==
    <<"I32", "I64", "F32", "F64", "V128", "ExternRef", "FuncRef">>[(d % 7) + 1]

(***************************************************************************)
(* Properties.                                                             *)
(***************************************************************************)

\* C1: when mutate succeeds on a module whose type section holds N plain
\* function types over the seven value types, the output's type section reads
\* back as N+1 entries: the N original ones, in order and unchanged, then the
\* newly generated signature.
GrowthInvariant ==
    (out.status = "Ok" /\ input.shape = "good") =>
        /\ Cardinality(TypeSectionsOf(out.module)) = 1
        /\ LET k == CHOOSE i \in TypeSectionsOf(out.module) : TRUE
               old == ReadTypes(get_type_section(info).val.data)
               new == ReadTypes(out.module[k].data)
           IN /\ old.ok /\ Len(old.val) = input.n
              /\ new.ok /\ Len(new.val) = input.n + 1
              /\ \A i \in 1..input.n : new.val[i] = old.val[i]
              /\ new.val[input.n + 1] = ParsedSig(out.sig)

GrowthWitness ==
    /\ out.status = "Ok" /\ input.shape = "good" /\ input.n = MaxTypes
    /\ Len(out.sig.params) = MaxBound

\* C2: on a module without a type section mutate succeeds, and the output has
\* exactly one type section, with no structural section before it, holding
\* exactly one entry, the newly generated signature, however many custom
\* sections lead the module.
InsertionPolicy ==
    (Called /\ input.shape = "absent") =>
        /\ out.status = "Ok"
        /\ Cardinality(TypeSectionsOf(out.module)) = 1
        /\ LET k == CHOOSE i \in TypeSectionsOf(out.module) : TRUE
               new == ReadTypes(out.module[k].data)
           IN /\ StructuralIndex(out.module, k) = 0
              /\ new.ok
              /\ new.val = <<ParsedSig(out.sig)>>

InsertionWitness ==
    /\ out.status = "Ok" /\ input.shape = "absent"
    /\ input.custom = MaxCustom /\ input.rest # <<>>

\* C3: when mutate succeeds on a module whose type section is at index k, the
\* output has as many sections as the input, its type section is at index k,
\* every other section is the input's section at that position, and the type
\* section's bytes have changed.
ReplacementPolicy ==
    (out.status = "Ok" /\ input.shape = "good") =>
        LET k == info.types.val + 1 IN
        /\ Len(out.module) = Len(info.raw_sections)
        /\ TypeSectionsOf(out.module) = {k}
        /\ \A i \in 1..Len(out.module) :
              i # k => out.module[i] = info.raw_sections[i]
        /\ out.module[k].data # info.raw_sections[k].data

ReplacementWitness ==
    /\ out.status = "Ok" /\ input.shape = "good"
    /\ input.custom = MaxCustom /\ input.n > 0

\* C4: a call that does not succeed yields no candidate module and has called
\* neither replace_section nor insert_section; a truncated or malformed type
\* section makes the call return an error; and the input module is never
\* changed.
AtomicFailure ==
    /\ out.status \in {"Err", "Panic"} =>
          (out.module = NoModule /\ out.store = <<>>)
    /\ (Called /\ input.shape \in DecodeErrorShapes) => out.status = "Err"
    /\ info = InputModule(input)

AtomicFailureWitness ==
    /\ out.status = "Err" /\ input.shape = "overcount" /\ input.n > 0
    /\ out.cursor > 0

\* C5: on a type section holding a continuation type, or a function type with
\* a reference type other than funcref and externref, mutate returns an error
\* (and does not panic).
UnsupportedIsAnError ==
    (Called /\ input.shape \in UnsupportedShapes) => out.status = "Err"

\* C6 as stated: a call makes 2 + p + r draws: the param count, then the
\* result count, then the p param types, then the r result types.
ClaimedDrawOrder ==
    Called =>
        LET p == Len(out.sig.params)
            r == Len(out.sig.results)
        IN /\ out.cursor = 2 + p + r
           /\ p = RawAt(1) % (self.max_params + 1)
           /\ r = RawAt(2) % (self.max_results + 1)
           /\ \A i \in 1..p : out.sig.params[i] = DrawnValType(RawAt(2 + i))
           /\ \A j \in 1..r : out.sig.results[j] = DrawnValType(RawAt(2 + p + j))

\* C6 amended: a call makes 2 + p + r draws: the param count, then the p param
\* types left to right, then the result count, then the r result types left
\* to right.
DrawOrder ==
    Called =>
        LET p == Len(out.sig.params)
            r == Len(out.sig.results)
        IN /\ out.cursor = 2 + p + r
           /\ p = RawAt(1) % (self.max_params + 1)
           /\ \A i \in 1..p : out.sig.params[i] = DrawnValType(RawAt(1 + i))
           /\ r = RawAt(2 + p) % (self.max_results + 1)
           /\ \A j \in 1..r : out.sig.results[j] = DrawnValType(RawAt(2 + p + j))

DrawOrderWitness ==
    /\ Called /\ Len(out.sig.params) = MaxBound /\ Len(out.sig.results) = MaxBound
    /\ out.sig.params[1] # out.sig.results[1]

BoundsRespected ==
    Called =>
        /\ Len(out.sig.params) \in 0..self.max_params
        /\ Len(out.sig.results) \in 0..self.max_results
        /\ \A i \in 1..Len(out.sig.params) : out.sig.params[i] \in EncValTypes
        /\ \A j \in 1..Len(out.sig.results) : out.sig.results[j] \in EncValTypes
        /\ (self.max_params = 0 /\ self.max_results = 0) => out.sig = Sig(<<>>, <<>>)

BoundsWitness ==
    /\ Called /\ self.max_params = 0 /\ self.max_results = MaxBound
    /\ Len(out.sig.results) = MaxBound

\* C9: decoding the encoding of a list of signatures over the seven value
\* types succeeds and yields the list again.
RoundTrip ==
    Called => (out.status = "Ok" /\ out.types = input.types)

RoundTripWitness ==
    /\ out.status = "Ok" /\ Len(out.types) = MaxTypes + 1
    /\ out.types[MaxTypes + 1].params = <<"FuncRef">>

\* C10: whatever the input module (type section present, absent or failing to
\* decode), the generated signature and the cursor of the random source after
\* the call are those the generator alone produces from the seed and the
\* bounds.
GenerationIgnoresModule ==
    Called =>
        LET g == new_signature(self, seed_from(rng)) IN
        /\ out.sig = Sig(g.params, g.results)
        /\ out.cursor = g.rng.cursor
        /\ rng.cursor = g.rng.cursor

GenerationWitness ==
    /\ out.status = "Err" /\ input.shape = "truncated"
    /\ Len(out.sig.params) = MaxBound /\ rng.cursor > 2

====
